---- MODULE Spec2Model ----
(***************************************************************************)
(* A model of the two chat adapters of the repository:                     *)
(*   src/Function_Anthropic4.py  (Pipe: extract_system_message, pipe,      *)
(*                                non_stream_response, stream_response)    *)
(*   src/Function_openAI_3.py    (Pipe: pipes, pipe)                       *)
(*                                                                         *)
(* Each adapter is stateless apart from its configuration (valves), so a   *)
(* state holds the valves, the last call the host made (call), how that    *)
(* call ended (outcome), the local variables of the call at its exit       *)
(* (locals), the HTTP requests it issued (http) and, for the streamed      *)
(* Anthropic path, the generator the host is consuming (gen).              *)
(*                                                                         *)
(* Texts that the code only moves around are TLA+ strings.  Texts that the *)
(* code inspects character by character (model ids, filter prefixes) are   *)
(* sequences of one-character strings.  The base64 text of an image is     *)
(* represented by its length, the only thing the code reads of it.         *)
(***************************************************************************)
EXTENDS Integers, Sequences, FiniteSets

VARIABLES valves, call, outcome, locals, http, gen

vars == <<valves, call, outcome, locals, http, gen>>

(***************************************************************************)
(* Bounds of the model.                                                    *)
(***************************************************************************)
MaxMsgs == 2        \* messages of one request
MaxParts == 6       \* content parts of one request, over all its messages
MaxChat == 3        \* messages of one text-only request
MaxIdLen == 4       \* characters of a model id
MaxLines == 3       \* lines of one streamed response
MaxCatalog == 3     \* entries of the OpenAI model catalog
MaxFilterLen == 3   \* characters of MODEL_FILTER

(***************************************************************************)
(* Program constants, src/Function_Anthropic4.py lines 10-12.              *)
(***************************************************************************)
MAX_IMAGES_PER_CALL == 5
MAX_TOTAL_IMAGE_SIZE == 100 * 1024 * 1024
API_VERSION == "2023-06-01"

\* Python computes len(data) * 3 / 4 as a float, exact in quarters of a byte.
\* The model keeps every size in quarter bytes, so that it stays an integer.
QUARTERS == 4

None == [kind |-> "none"]
Str(s) == [kind |-> "str", text |-> s]
List(items) == [kind |-> "list", items |-> items]

\* Python truthiness of a value: None, "" and [] are false.
Truthy(v) ==
  CASE v.kind = "none" -> FALSE
    [] v.kind = "str" -> v.text # ""
    [] v.kind = "list" -> v.items # <<>>
    [] OTHER -> TRUE

(***************************************************************************)
(* Pipe.process_image: a data: URI becomes a base64 source, any other URL  *)
(* a url source.  An image URL is [data, media_type, len]: whether it      *)
(* starts with "data:image", its MIME type and the length of the text      *)
(* after the first comma.                                                  *)
(***************************************************************************)
process_image(image_data) ==
  IF image_data.image_url.data
  THEN [type |-> "image",
        source |-> [type |-> "base64",
                    media_type |-> image_data.image_url.media_type,
                    data_len |-> image_data.image_url.len]]
  ELSE [type |-> "image",
        source |-> [type |-> "url", url |-> image_data.image_url]]

(***************************************************************************)
(* Pipe.extract_system_message: one pass over the messages; a system       *)
(* message overwrites system_message, any other message is appended.       *)
(***************************************************************************)
RECURSIVE ExtractFrom(_, _, _, _)
ExtractFrom(messages, i, system_message, other_messages) ==
  IF i > Len(messages)
  THEN [system_message |-> system_message, other_messages |-> other_messages]
  ELSE IF messages[i].role = "system"
       THEN ExtractFrom(messages, i + 1, messages[i].content, other_messages)
       ELSE ExtractFrom(messages, i + 1, system_message,
                        Append(other_messages, messages[i]))

ExtractFirstWins(messages) ==
  LET sys == SelectSeq(messages, LAMBDA m : m.role = "system")
  IN [system_message |-> IF sys = <<>> THEN None ELSE sys[1].content,
      other_messages |-> SelectSeq(messages, LAMBDA m : m.role # "system")]

extract_system_message(messages) == ExtractFrom(messages, 1, None, <<>>)

(***************************************************************************)
(* The three limits of Pipe.pipe, lines 102, 114-117 and 125.              *)
(***************************************************************************)
ImageLimitOffByOne(image_count) == image_count > MAX_IMAGES_PER_CALL

ImageLimitReached(image_count) == image_count >= MAX_IMAGES_PER_CALL

ImageSize(source) == source.data_len * 3      \* quarter bytes: len * 3 / 4

ImageTooLargeAgainstTotal(image_size) ==
  image_size > QUARTERS * MAX_TOTAL_IMAGE_SIZE

ImageTooLarge(image_size) ==
  image_size > QUARTERS * (MAX_TOTAL_IMAGE_SIZE \div MAX_IMAGES_PER_CALL)

TotalTooLarge(total_image_size) ==
  total_image_size > QUARTERS * MAX_TOTAL_IMAGE_SIZE

E_KEY == "ANTHROPIC_API_KEY is not set. Please set it in your environment variables before making API calls."
E_COUNT == "Maximum of 5 images per API call exceeded"
E_PER_IMAGE == "Image size exceeds maximum allowed size per image"
E_TOTAL == "Total size of images exceeds 100.0 MB limit"
NoError == ""

(***************************************************************************)
(* The body of the loops of Pipe.pipe, lines 93-138.  st holds the locals  *)
(* processed_messages, processed_content, image_count, total_image_size    *)
(* and the ValueError raised, if any; a raise ends both loops.             *)
(***************************************************************************)
ProcessItem(item, st) ==
  IF st.error # NoError THEN st
  ELSE IF item.type = "text"
  THEN [st EXCEPT !.processed_content =
          Append(@, [type |-> "text", text |-> item.text])]
  ELSE IF item.type = "image_url"
  THEN IF ImageLimitReached(st.image_count)
       THEN [st EXCEPT !.error = E_COUNT]
       ELSE LET processed_image == process_image(item)
                base64 == processed_image.source.type = "base64"
                image_size == IF base64 THEN ImageSize(processed_image.source)
                              ELSE 0
                st1 == [st EXCEPT !.processed_content = Append(@, processed_image)]
            IN IF base64 /\ ImageTooLarge(image_size)
               THEN [st1 EXCEPT !.error = E_PER_IMAGE]
               ELSE LET st2 == [st1 EXCEPT !.total_image_size = @ + image_size]
                    IN IF TotalTooLarge(st2.total_image_size)
                       THEN [st2 EXCEPT !.error = E_TOTAL]
                       ELSE [st2 EXCEPT !.image_count = @ + 1]
  ELSE st

RECURSIVE ProcessItems(_, _, _)
ProcessItems(items, i, st) ==
  IF i > Len(items) THEN st
  ELSE ProcessItems(items, i + 1, ProcessItem(items[i], st))

ProcessMessagePrepending(message, st) ==
  IF st.error # NoError THEN st
  ELSE LET st1 ==
             IF message.content.kind = "list"
             THEN ProcessItems(message.content.items, 1,
                               [st EXCEPT !.processed_content = <<>>])
             ELSE [st EXCEPT !.processed_content =
                     <<[type |-> "text", text |-> message.content.text]>>]
       IN IF st1.error # NoError THEN st1
          ELSE [st1 EXCEPT !.processed_messages =
                  <<[role |-> message.role,
                     content |-> st1.processed_content]>> \o @]

ProcessMessage(message, st) ==
  IF st.error # NoError THEN st
  ELSE LET st1 ==
             IF message.content.kind = "list"
             THEN ProcessItems(message.content.items, 1,
                               [st EXCEPT !.processed_content = <<>>])
             ELSE [st EXCEPT !.processed_content =
                     <<[type |-> "text", text |-> message.content.text]>>]
       IN IF st1.error # NoError THEN st1
          ELSE [st1 EXCEPT !.processed_messages =
                  Append(@, [role |-> message.role,
                             content |-> st1.processed_content])]

RECURSIVE ProcessMessages(_, _, _)
ProcessMessages(messages, i, st) ==
  IF i > Len(messages) THEN st
  ELSE ProcessMessages(messages, i + 1, ProcessMessage(messages[i], st))

Translate(messages) ==
  ProcessMessages(messages, 1,
                  [processed_messages |-> <<>>, processed_content |-> <<>>,
                   image_count |-> 0, total_image_size |-> 0,
                   error |-> NoError])

(***************************************************************************)
(* body["model"][body["model"].find(".") + 1 :], line 141 of the Anthropic *)
(* adapter and line 97 of the OpenAI adapter.  find and rfind return a     *)
(* 0-based index, or -1 when the character does not occur.                 *)
(***************************************************************************)
RECURSIVE FindFrom(_, _, _)
FindFrom(s, ch, i) ==
  IF i > Len(s) THEN -1
  ELSE IF s[i] = ch THEN i - 1
  ELSE FindFrom(s, ch, i + 1)

find(s, ch) == FindFrom(s, ch, 1)

RECURSIVE RFindFrom(_, _, _)
RFindFrom(s, ch, i) ==
  IF i < 1 THEN -1
  ELSE IF s[i] = ch THEN i - 1
  ELSE RFindFrom(s, ch, i - 1)

\* s[start:] with a 0-based start in 0..len(s)
SliceFrom(s, start) == SubSeq(s, start + 1, Len(s))

StripAtLastDot(model) == SliceFrom(model, RFindFrom(model, ".", Len(model)) + 1)

StripModelPrefix(model) == SliceFrom(model, find(model, ".") + 1)

(***************************************************************************)
(* The payload of Pipe.pipe, lines 140-150.  The request bodies of the     *)
(* model carry model, messages and stream only, so every sampling          *)
(* parameter takes its default.                                            *)
(***************************************************************************)
IncludeSystemUnlessNone(system_message) == system_message.kind # "none"

IncludeSystem(system_message) == Truthy(system_message)

BasePayload(body, processed_messages, max_total_tokens) ==
  [model |-> StripModelPrefix(body.model),
   messages |-> processed_messages,
   max_tokens |-> max_total_tokens,
   temperature |-> "0.8",
   top_k |-> 40,
   top_p |-> "0.9",
   stop_sequences |-> <<>>,
   stream |-> body.stream]

Payload(body, system_message, processed_messages, max_total_tokens) ==
  LET base == BasePayload(body, processed_messages, max_total_tokens)
  IN IF IncludeSystem(system_message)
     THEN [model |-> base.model, messages |-> base.messages,
           max_tokens |-> base.max_tokens, temperature |-> base.temperature,
           top_k |-> base.top_k, top_p |-> base.top_p,
           stop_sequences |-> base.stop_sequences,
           system |-> system_message, stream |-> base.stream]
     ELSE base

AnthropicUrl == "https://api.anthropic.com/v1/messages"

AnthropicHeaders(key) ==
  [x_api_key |-> key, anthropic_version |-> API_VERSION,
   content_type |-> "application/json"]

Post(url, headers, payload) ==
  [method |-> "POST", url |-> url, headers |-> headers, json |-> payload]

(***************************************************************************)
(* How a call ends: it returns a value or an exception leaves it.  A       *)
(* returned string is the sequence of the texts it is formatted from.      *)
(***************************************************************************)
NoOutcome == [kind |-> "none"]
Returned(type, value) == [kind |-> "return", type |-> type, value |-> value]
Raised(exc, msg) == [kind |-> "raise", exc |-> exc, msg |-> msg]

(***************************************************************************)
(* What the vendor answers to one HTTP request: the connection fails       *)
(* (requests.RequestException), or a status comes back with a body that    *)
(* parses as JSON or not.                                                  *)
(***************************************************************************)
NetFailure == [fail |-> TRUE, status |-> 0, parses |-> FALSE, json |-> None]
HttpReply(status, parses, json) ==
  [fail |-> FALSE, status |-> status, parses |-> parses, json |-> json]

Dict(fields) == [kind |-> "dict", fields |-> fields]

AnthropicResponses ==
  { NetFailure,
    HttpReply(500, TRUE, Dict([error |-> Str("overloaded")])),
    HttpReply(200, FALSE, None),
    HttpReply(200, TRUE, Dict([content |-> List(<<>>)])),
    HttpReply(200, TRUE,
              Dict([content |-> List(<<Dict([type |-> Str("text"),
                                            text |-> Str("ok")])>>)])) }

(***************************************************************************)
(* Pipe.non_stream_response, lines 202-208, as the exception or the value  *)
(* it ends with.  The replies of the model hold a well-formed content      *)
(* list, so res["content"][0]["text"] raises nothing.                      *)
(***************************************************************************)
non_stream_response(resp) ==
  IF resp.fail THEN Raised("RequestException", "connection failed")
  ELSE IF resp.status # 200 THEN Raised("Exception", "HTTP Error")
  ELSE IF ~resp.parses THEN Raised("ValueError", "json")
  ELSE IF "content" \in DOMAIN resp.json.fields
          /\ Truthy(resp.json.fields["content"])
       THEN Returned("str", <<resp.json.fields["content"].items[1].fields["text"].text>>)
       ELSE Returned("str", <<"">>)

(***************************************************************************)
(* The except clauses of Pipe.pipe, lines 165-173: every exception         *)
(* becomes a returned string.                                              *)
(***************************************************************************)
CatchAll(o) ==
  IF o.kind # "raise" THEN o
  ELSE IF o.exc \in {"RequestException", "ValueError"}
       THEN Returned("str", <<"Error: ", o.msg>>)
       ELSE Returned("str", <<"Unexpected error: ", o.msg>>)

NoLocals ==
  [entered |-> FALSE, system_message |-> None, messages |-> <<>>,
   processed_messages |-> <<>>, image_count |-> 0, total_image_size |-> 0,
   error |-> NoError, built |-> FALSE, payload |-> None]

NoGen ==
  [state |-> "none", exc |-> "", lines |-> <<>>, pos |-> 0, yielded |-> <<>>]

(***************************************************************************)
(* Pipe.pipe of the Anthropic adapter, lines 80-173, up to the return      *)
(* statement: the key check, extract_system_message, the translation loop  *)
(* and the payload.                                                        *)
(***************************************************************************)
PipeLocals(body, v) ==
  IF v.ANTHROPIC_API_KEY = ""
  THEN [NoLocals EXCEPT !.error = E_KEY]
  ELSE LET ex == extract_system_message(body.messages)
           st == Translate(ex.other_messages)
           base == [NoLocals EXCEPT !.entered = TRUE,
                       !.system_message = ex.system_message,
                       !.messages = ex.other_messages,
                       !.processed_messages = st.processed_messages,
                       !.image_count = st.image_count,
                       !.total_image_size = st.total_image_size,
                       !.error = st.error]
       IN IF st.error # NoError THEN base
          ELSE [base EXCEPT !.built = TRUE,
                   !.payload = Payload(body, ex.system_message,
                                       st.processed_messages, v.MAX_TOTAL_TOKENS)]

(***************************************************************************)
(* The requests the host sends.  Three families, each within its bound:    *)
(* requests of at most MaxMsgs user messages made of at most MaxParts      *)
(* image parts together, requests of at most MaxChat system, user and      *)
(* assistant messages, and requests that vary the model id only.           *)
(***************************************************************************)
NoUrl == [data |-> FALSE, media_type |-> "", len |-> 0]
TextPart(t) == [type |-> "text", text |-> t, image_url |-> NoUrl]
ImagePart(u) == [type |-> "image_url", text |-> "", image_url |-> u]

RemoteUrl == [data |-> FALSE, media_type |-> "", len |-> 0]
DataUrl(n) == [data |-> TRUE, media_type |-> "image/png", len |-> n]

\* The longest base64 text whose estimate, len * 3 / 4, is within the
\* per-image limit, and the shortest one over it.
LongestAllowed ==
  (QUARTERS * (MAX_TOTAL_IMAGE_SIZE \div MAX_IMAGES_PER_CALL)) \div 3

ImageParts ==
  { ImagePart(RemoteUrl), ImagePart(DataUrl(LongestAllowed)),
    ImagePart(DataUrl(LongestAllowed + 1)) }

Message(role, content) == [role |-> role, content |-> content]

SeqsOfLen(S, n) == [1..n -> S]
SeqsUpTo(S, n) == UNION { SeqsOfLen(S, k) : k \in 0..n }

\* The image parts `parts` as user messages: a message ends after each
\* part whose index is in `cuts`, and after the last part.
RECURSIVE GroupFrom(_, _, _, _, _)
GroupFrom(parts, cuts, i, items, messages) ==
  IF i > Len(parts) THEN messages
  ELSE IF i \in cuts \/ i = Len(parts)
  THEN GroupFrom(parts, cuts, i + 1, <<>>,
                 Append(messages,
                        Message("user", List(Append(items, parts[i])))))
  ELSE GroupFrom(parts, cuts, i + 1, Append(items, parts[i]), messages)

ImageMessages(parts, cuts) == GroupFrom(parts, cuts, 1, <<>>, <<>>)

\* The ways to end messages inside n parts, for at most MaxMsgs messages.
CutSets(n) == { c \in SUBSET (1..(n - 1)) : Cardinality(c) < MaxMsgs }

ChatMessages ==
  { Message("system", Str("")), Message("system", Str("A")),
    Message("system", Str("B")),
    Message("user", Str("hi")),
    Message("user", List(<<TextPart("look"), ImagePart(RemoteUrl),
                           ImagePart(DataUrl(LongestAllowed))>>)),
    Message("user", List(<<>>)),
    Message("assistant", Str("yo")) }

Chars == {"a", "b", "."}
ModelIds == SeqsUpTo(Chars, MaxIdLen)
DefaultModel == <<"a", ".", "b">>

Body(model, messages, stream) ==
  [model |-> model, messages |-> messages, stream |-> stream]

ImageBody(parts, cuts) ==
  Body(DefaultModel, ImageMessages(parts, cuts), FALSE)
ChatBodies ==
  { Body(DefaultModel, ms, st) : ms \in SeqsUpTo(ChatMessages, MaxChat),
                                  st \in BOOLEAN }
ModelBodies ==
  { Body(m, <<Message("user", Str("hi"))>>, FALSE) : m \in ModelIds }

TextBodies == ChatBodies \cup ModelBodies

(***************************************************************************)
(* The configuration.  Only the fields of the adapter a specification      *)
(* exercises vary.                                                         *)
(***************************************************************************)
Valves(akey, okey, filter) ==
  [ANTHROPIC_API_KEY |-> akey, MAX_TOTAL_TOKENS |-> 4000,
   OPENAI_API_KEY |-> okey, MODEL_FILTER |-> filter,
   NAME_PREFIX |-> <<"O", "/">>]

NoCall == [adapter |-> "none", op |-> "none"]

(***************************************************************************)
(* The host calls Pipe.pipe of the Anthropic adapter.  A streamed request  *)
(* returns the generator of stream_response, whose body has not started:   *)
(* no HTTP request is issued by the call itself.  A buffered request runs  *)
(* non_stream_response inside the try block.  A call reads the valves and  *)
(* nothing a former call left, so a behaviour follows one call.            *)
(***************************************************************************)
AnthropicPipeEnds(body, loc, o, reqs, g) ==
  /\ call' = [adapter |-> "anthropic", op |-> "pipe", body |-> body]
  /\ locals' = loc
  /\ outcome' = o
  /\ http' = reqs
  /\ gen' = g
  /\ UNCHANGED valves

AnthropicPipeOf(body) ==
  LET loc == PipeLocals(body, valves)
      req == Post(AnthropicUrl, AnthropicHeaders(valves.ANTHROPIC_API_KEY),
                  loc.payload)
  IN \/ /\ loc.error # NoError
        /\ AnthropicPipeEnds(body, loc,
                             CatchAll(Raised("ValueError", loc.error)),
                             <<>>, NoGen)
     \/ /\ loc.error = NoError
        /\ body.stream
        /\ AnthropicPipeEnds(body, loc, Returned("generator", req), <<>>,
                             [NoGen EXCEPT !.state = "created"])
     \/ /\ loc.error = NoError
        /\ ~body.stream
        /\ \E resp \in AnthropicResponses :
             AnthropicPipeEnds(body, loc, CatchAll(non_stream_response(resp)),
                               <<req>>, NoGen)

AnthropicPipe ==
  /\ call = NoCall
  /\ \/ \E body \in TextBodies : AnthropicPipeOf(body)
     \/ \E n \in 0..MaxParts :
          \E parts \in SeqsOfLen(ImageParts, n), cuts \in CutSets(n) :
            AnthropicPipeOf(ImageBody(parts, cuts))

AnthropicInit ==
  /\ valves \in { Valves(k, "", <<>>) : k \in {"", "sk-ant"} }
  /\ call = NoCall
  /\ outcome = NoOutcome
  /\ locals = NoLocals
  /\ http = <<>>
  /\ gen = NoGen

AnthropicNext == AnthropicPipe

SpecAnthropic == AnthropicInit /\ [][AnthropicNext]_vars

(***************************************************************************)
(* The OpenAI adapter, src/Function_openAI_3.py.                           *)
(*                                                                         *)
(* str.split(sep) of line 53: the pieces between the separators, one more  *)
(* than there are separators, empty pieces kept.                           *)
(***************************************************************************)
RECURSIVE SplitFrom(_, _, _, _, _)
SplitFrom(s, sep, i, piece, pieces) ==
  IF i > Len(s) THEN Append(pieces, piece)
  ELSE IF s[i] = sep
  THEN SplitFrom(s, sep, i + 1, <<>>, Append(pieces, piece))
  ELSE SplitFrom(s, sep, i + 1, Append(piece, s[i]), pieces)

split(s, sep) == SplitFrom(s, sep, 1, <<>>, <<>>)

startswith(s, prefix) ==
  Len(prefix) <= Len(s) /\ SubSeq(s, 1, Len(prefix)) = prefix

\* line 61: any(model["id"].startswith(prefix) for prefix in filter_prefixes)
StartsWithAll(id, filter_prefixes) ==
  \A k \in 1..Len(filter_prefixes) : startswith(id, filter_prefixes[k])

StartsWithAny(id, filter_prefixes) ==
  \E k \in 1..Len(filter_prefixes) : startswith(id, filter_prefixes[k])

\* lines 56-59: one entry of the returned list
ListedModel(model, name_prefix) ==
  [id |-> model.fields["id"],
   name |-> name_prefix \o (IF "name" \in DOMAIN model.fields
                            THEN model.fields["name"]
                            ELSE model.fields["id"])]

\* lines 55-62: the comprehension raises KeyError at the first model read
\* that has no "id"; the filter is evaluated before the entry is built.
RECURSIVE FilterFrom(_, _, _, _, _)
FilterFrom(data, i, filter_prefixes, name_prefix, filtered_models) ==
  IF i > Len(data) THEN Returned("list", filtered_models)
  ELSE IF "id" \notin DOMAIN data[i].fields THEN Raised("KeyError", "id")
  ELSE FilterFrom(data, i + 1, filter_prefixes, name_prefix,
                  IF StartsWithAny(data[i].fields["id"], filter_prefixes)
                  THEN Append(filtered_models,
                              ListedModel(data[i], name_prefix))
                  ELSE filtered_models)

ErrorEntry(name) == [id |-> <<"error">>, name |-> <<name>>]
E_FETCH == "Could not fetch models from OpenAI, please update the API Key in the valves."
E_NO_GLOBAL_KEY == "Global API Key not provided."

\* response.raise_for_status(): a 4xx or 5xx status raises HTTPError
RaisesForStatus(resp) == 400 <= resp.status /\ resp.status < 600

\* lines 46-64, the try block of pipes
FetchModels(resp, v) ==
  IF resp.fail THEN Raised("RequestException", "connection failed")
  ELSE IF RaisesForStatus(resp) THEN Raised("HTTPError", "status")
  ELSE IF ~resp.parses THEN Raised("ValueError", "json")
  ELSE IF "data" \notin DOMAIN resp.json.fields THEN Raised("KeyError", "data")
  ELSE FilterFrom(resp.json.fields["data"].items, 1,
                  split(v.MODEL_FILTER, ","), v.NAME_PREFIX, <<>>)

\* lines 66-73
FailSoft(o) ==
  IF o.kind = "raise" THEN Returned("list", <<ErrorEntry(E_FETCH)>>) ELSE o

(***************************************************************************)
(* The catalog the vendor answers with: at most MaxCatalog models, with    *)
(* or without a name, one of them without an id.  The replies: no reply,   *)
(* a 500, a 200 whose body is no JSON, a 200 whose JSON has no "data", a   *)
(* 200 with a catalog, and a 300 (a redirection status that requests does  *)
(* not follow without a Location header) with a catalog.                   *)
(***************************************************************************)
CatalogModels ==
  { Dict([id |-> <<"g">>]), Dict([id |-> <<"g", "d">>]), Dict([id |-> <<"d">>]),
    Dict([id |-> <<"x">>]), Dict([id |-> <<"g", "x">>, name |-> <<"N">>]),
    Dict([object |-> <<"model">>]) }

Catalogs == SeqsUpTo(CatalogModels, MaxCatalog)

ModelsResponses ==
  { NetFailure,
    HttpReply(500, TRUE, Dict([error |-> Str("down")])),
    HttpReply(200, FALSE, None),
    HttpReply(200, TRUE, Dict([object |-> Str("list")])) }
  \cup { HttpReply(st, TRUE, Dict([data |-> List(c)])) :
           st \in {200, 300}, c \in Catalogs }

Filters == SeqsUpTo({"g", "d", ","}, MaxFilterLen)

OpenAIHeaders(key) ==
  [Authorization |-> <<"Bearer ", key>>, Content_Type |-> "application/json"]

Get(url, headers) == [method |-> "GET", url |-> url, headers |-> headers]

\* Pipe.pipes, lines 38-80
OpenAIPipes ==
  /\ call = NoCall
  /\ \/ /\ valves.OPENAI_API_KEY = ""
        /\ call' = [adapter |-> "openai", op |-> "pipes", reply |-> NetFailure]
        /\ outcome' = Returned("list", <<ErrorEntry(E_NO_GLOBAL_KEY)>>)
        /\ http' = <<>>
     \/ /\ valves.OPENAI_API_KEY # ""
        /\ \E resp \in ModelsResponses :
             /\ call' = [adapter |-> "openai", op |-> "pipes", reply |-> resp]
             /\ outcome' = FailSoft(FetchModels(resp, valves))
             /\ http' = <<Get("/models", OpenAIHeaders(valves.OPENAI_API_KEY))>>
  /\ UNCHANGED <<valves, locals, gen>>

OpenAIInit ==
  /\ valves \in { Valves("", k, f) : k \in {"", "sk-oa"}, f \in Filters }
  /\ call = NoCall
  /\ outcome = NoOutcome
  /\ locals = NoLocals
  /\ http = <<>>
  /\ gen = NoGen

OpenAINext == OpenAIPipes

SpecOpenAI == OpenAIInit /\ [][OpenAINext]_vars

(***************************************************************************)
(* Pipe.pipe of the OpenAI adapter, lines 82-118.  The key check of lines  *)
(* 88-89 and the payload of lines 97-98 stand before the try block: what   *)
(* they raise leaves the call.                                             *)
(***************************************************************************)
E_NO_USER_KEY == "OPENAI_API_KEY not provided by the user."

OpenAIResponses ==
  { NetFailure,
    HttpReply(500, TRUE, Dict([error |-> Str("down")])),
    HttpReply(200, FALSE, None),
    HttpReply(200, TRUE, Dict([choices |-> List(<<>>)])) }

OpenAIBodies ==
  { Body(m, <<Message("user", Str("hi"))>>, st) : m \in ModelIds,
                                                   st \in BOOLEAN }

\* lines 101-118, the try block and its except clause
Completion(body, resp) ==
  IF resp.fail THEN Raised("RequestException", "connection failed")
  ELSE IF RaisesForStatus(resp) THEN Raised("HTTPError", "status")
  ELSE IF body.stream THEN Returned("generator", resp)
  ELSE IF ~resp.parses THEN Raised("ValueError", "json")
  ELSE Returned("json", resp.json)

ReturnError(o) ==
  IF o.kind = "raise" THEN Returned("str", <<"Error: ", o.msg>>) ELSE o

OpenAIPipe ==
  /\ call = NoCall
  /\ \E body \in OpenAIBodies :
       /\ call' = [adapter |-> "openai", op |-> "pipe", body |-> body]
       /\ \/ /\ valves.OPENAI_API_KEY = ""
             /\ outcome' = Raised("Exception", E_NO_USER_KEY)
             /\ locals' = NoLocals
             /\ http' = <<>>
          \/ /\ valves.OPENAI_API_KEY # ""
             /\ LET payload == [body EXCEPT !.model = StripModelPrefix(body.model)]
                IN /\ locals' = [NoLocals EXCEPT !.entered = TRUE,
                                    !.built = TRUE, !.payload = payload]
                   /\ http' = <<Post("/chat/completions",
                                     OpenAIHeaders(valves.OPENAI_API_KEY),
                                     payload)>>
                   /\ \E resp \in OpenAIResponses :
                        outcome' = ReturnError(Completion(body, resp))
  /\ UNCHANGED <<valves, gen>>

PipesInit ==
  /\ valves \in { Valves(a, o, <<"g">>) : a \in {"", "sk-ant"},
                                         o \in {"", "sk-oa"} }
  /\ call = NoCall
  /\ outcome = NoOutcome
  /\ locals = NoLocals
  /\ http = <<>>
  /\ gen = NoGen

PipesNext == AnthropicPipe \/ OpenAIPipe

SpecPipes == PipesInit /\ [][PipesNext]_vars

(***************************************************************************)
(* Pipe.stream_response, lines 175-200: a generator.  Its body starts at   *)
(* the host's first next(): the POST is issued, an error status raises,    *)
(* and the lines of the response are read one by one.                      *)
(*                                                                         *)
(* A line is blank, or has no 'data: ' prefix, or carries a payload that   *)
(* json.loads parses or not.  A parsed payload is a JSON value: a Dict, a  *)
(* List, a Str or None (null).                                             *)
(***************************************************************************)
BlankLine == [empty |-> TRUE, data |-> FALSE, parses |-> FALSE, json |-> None]
OtherLine == [empty |-> FALSE, data |-> FALSE, parses |-> FALSE, json |-> None]
DataLine(json) == [empty |-> FALSE, data |-> TRUE, parses |-> TRUE, json |-> json]
NotJsonLine == [empty |-> FALSE, data |-> TRUE, parses |-> FALSE, json |-> None]

\* v[key] in Python: a dict without the key raises KeyError, a value that
\* is no dict (None, a str indexed by a str, a list indexed by a str)
\* raises TypeError.
Subscript(v, key) ==
  IF v.kind # "dict" THEN [exc |-> "TypeError", value |-> None]
  ELSE IF key \notin DOMAIN v.fields THEN [exc |-> "KeyError", value |-> None]
  ELSE [exc |-> "", value |-> v.fields[key]]

IsStr(v, s) == v.kind = "str" /\ v.text = s

Step(yields, exc, stop) == [yields |-> yields, exc |-> exc, stop |-> stop]

\* data[outer][inner], yielded: lines 187 and 189
YieldNested(data, outer, inner) ==
  LET o == Subscript(data, outer)
  IN IF o.exc # "" THEN Step(<<>>, o.exc, FALSE)
     ELSE LET t == Subscript(o.value, inner)
          IN IF t.exc # "" THEN Step(<<>>, t.exc, FALSE)
             ELSE Step(<<t.value>>, "", FALSE)

\* lines 193-195: the text entries of a 'message' event, until one raises
RECURSIVE YieldEntries(_, _, _)
YieldEntries(content, i, yields) ==
  IF i > Len(content) THEN Step(yields, "", FALSE)
  ELSE LET ty == Subscript(content[i], "type")
       IN IF ty.exc # "" THEN Step(yields, ty.exc, FALSE)
          ELSE IF ~IsStr(ty.value, "text")
          THEN YieldEntries(content, i + 1, yields)
          ELSE LET tx == Subscript(content[i], "text")
               IN IF tx.exc # "" THEN Step(yields, tx.exc, FALSE)
                  ELSE YieldEntries(content, i + 1, Append(yields, tx.value))

\* lines 185-195, the try block for one parsed payload
HandleEvent(data) ==
  LET ty == Subscript(data, "type")
  IN IF ty.exc # "" THEN Step(<<>>, ty.exc, FALSE)
     ELSE IF IsStr(ty.value, "content_block_start")
     THEN YieldNested(data, "content_block", "text")
     ELSE IF IsStr(ty.value, "content_block_delta")
     THEN YieldNested(data, "delta", "text")
     ELSE IF IsStr(ty.value, "message_stop")
     THEN Step(<<>>, "", TRUE)
     ELSE IF IsStr(ty.value, "message")
     THEN LET content == IF "content" \in DOMAIN data.fields
                         THEN data.fields["content"] ELSE List(<<>>)
          IN IF content.kind # "list" THEN Step(<<>>, "TypeError", FALSE)
             ELSE YieldEntries(content.items, 1, <<>>)
     ELSE Step(<<>>, "", FALSE)

\* lines 198-199: a KeyError is logged and the loop goes on
CatchKeyError(step) ==
  IF step.exc = "KeyError" THEN [step EXCEPT !.exc = ""] ELSE step

\* lines 181-200, the body of the loop for one line
HandleLine(line) ==
  IF line.empty \/ ~line.data THEN Step(<<>>, "", FALSE)
  ELSE IF ~line.parses THEN Step(<<>>, "", FALSE)
  ELSE CatchKeyError(HandleEvent(line.json))

Event(t) == Dict([type |-> Str(t)])
StartEvent(t) ==
  Dict([type |-> Str("content_block_start"),
        content_block |-> Dict([type |-> Str("text"), text |-> Str(t)])])
DeltaEvent(t) ==
  Dict([type |-> Str("content_block_delta"),
        delta |-> Dict([type |-> Str("text_delta"), text |-> Str(t)])])
TextEntry(t) == Dict([type |-> Str("text"), text |-> Str(t)])
MessageEvent(entries) ==
  Dict([type |-> Str("message"), content |-> List(entries)])

StreamLines ==
  { BlankLine, OtherLine, NotJsonLine,
    DataLine(StartEvent("S")),
    DataLine(DeltaEvent("He")),
    DataLine(DeltaEvent("llo")),
    DataLine(Event("message_stop")),
    DataLine(Event("ping")),
    DataLine(Dict([index |-> Str("0")])),
    DataLine(Event("content_block_start")),
    DataLine(Dict([type |-> Str("content_block_delta"),
                   delta |-> Dict([type |-> Str("text_delta")])])),
    DataLine(Dict([type |-> Str("content_block_delta"), delta |-> None])),
    DataLine(MessageEvent(<<TextEntry("M"), Event("tool_use")>>)),
    DataLine(MessageEvent(<<TextEntry("M"), Dict([text |-> Str("X")]),
                            TextEntry("N")>>)) }

LineSeqs == SeqsUpTo(StreamLines, MaxLines)

StreamBody == Body(DefaultModel, <<Message("user", Str("hi"))>>, TRUE)

StreamReplies ==
  { [fail |-> TRUE, status |-> 0, lines |-> <<>>],
    [fail |-> FALSE, status |-> 500, lines |-> <<>>] }
  \cup { [fail |-> FALSE, status |-> 200, lines |-> ls] : ls \in LineSeqs }

\* lines 176-178: the body of the generator starts
StreamOpen ==
  /\ gen.state = "created"
  /\ http' = Append(http, outcome.value)
  /\ \E reply \in StreamReplies :
       gen' = IF reply.fail
              THEN [gen EXCEPT !.state = "raised", !.exc = "RequestException"]
              ELSE IF reply.status # 200
              THEN [gen EXCEPT !.state = "raised", !.exc = "Exception"]
              ELSE [gen EXCEPT !.state = "open", !.lines = reply.lines]
  /\ UNCHANGED <<valves, call, outcome, locals>>

\* lines 180-200: the next line is read and handled
StreamLine ==
  /\ gen.state = "open"
  /\ gen.pos < Len(gen.lines)
  /\ LET step == HandleLine(gen.lines[gen.pos + 1])
     IN gen' = [gen EXCEPT !.pos = @ + 1,
                           !.yielded = @ \o step.yields,
                           !.exc = step.exc,
                           !.state = IF step.exc # "" THEN "raised"
                                     ELSE IF step.stop THEN "done" ELSE "open"]
  /\ UNCHANGED <<valves, call, outcome, locals, http>>

\* line 180: the response has no more lines
StreamEnd ==
  /\ gen.state = "open"
  /\ gen.pos = Len(gen.lines)
  /\ gen' = [gen EXCEPT !.state = "done"]
  /\ UNCHANGED <<valves, call, outcome, locals, http>>

\* lines 180-200 as one function: what the generator has yielded, and the
\* exception that left it, when the host consumes it to its end
RECURSIVE RunFrom(_, _, _)
RunFrom(lines, i, yielded) ==
  IF i > Len(lines) THEN [yielded |-> yielded, exc |-> ""]
  ELSE LET step == HandleLine(lines[i])
       IN IF step.exc # ""
          THEN [yielded |-> yielded \o step.yields, exc |-> step.exc]
          ELSE IF step.stop THEN [yielded |-> yielded \o step.yields, exc |-> ""]
          ELSE RunFrom(lines, i + 1, yielded \o step.yields)

\* pipe has returned the generator for a streamed request
StreamInit ==
  /\ valves = Valves("sk-ant", "", <<>>)
  /\ call = [adapter |-> "anthropic", op |-> "pipe", body |-> StreamBody]
  /\ locals = PipeLocals(StreamBody, valves)
  /\ outcome = Returned("generator",
                        Post(AnthropicUrl, AnthropicHeaders(valves.ANTHROPIC_API_KEY),
                             locals.payload))
  /\ http = <<>>
  /\ gen = [NoGen EXCEPT !.state = "created"]

StreamNext == StreamOpen \/ StreamLine \/ StreamEnd

SpecStream == StreamInit /\ [][StreamNext]_vars

(***************************************************************************)
(* What the claims speak of, stated over the request and not over the      *)
(* locals of the call: the non-system messages, their image parts in       *)
(* order, and the estimated size of a base64 image, in bytes times four.   *)
(***************************************************************************)
AnthropicCalled == call.adapter = "anthropic" /\ call.op = "pipe"
KeyConfigured == valves.ANTHROPIC_API_KEY # ""

IsSystem(m) == m.role = "system"
NonSystem(messages) == SelectSeq(messages, LAMBDA m : ~IsSystem(m))

ImagePartsOf(m) ==
  IF m.content.kind = "list"
  THEN SelectSeq(m.content.items, LAMBDA it : it.type = "image_url")
  ELSE <<>>

RECURSIVE ImagesFrom(_, _)
ImagesFrom(messages, i) ==
  IF i > Len(messages) THEN <<>>
  ELSE ImagePartsOf(messages[i]) \o ImagesFrom(messages, i + 1)

\* the image parts of the non-system messages of the request, in order
RequestImages == ImagesFrom(NonSystem(call.body.messages), 1)

IsBase64(part) == part.image_url.data
Estimate4(part) == IF IsBase64(part) THEN 3 * part.image_url.len ELSE 0
OverPerImageCap(part) == IsBase64(part) /\ Estimate4(part) > 4 * (20 * 1024 * 1024)

RECURSIVE SumEstimates4(_, _)
SumEstimates4(parts, n) ==
  IF n = 0 THEN 0 ELSE Estimate4(parts[n]) + SumEstimates4(parts, n - 1)

Min(a, b) == IF a < b THEN a ELSE b

\* an image over the per-image cap among the first n image parts
OversizedAmong(n) ==
  \E i \in 1..Min(n, Len(RequestImages)) : OverPerImageCap(RequestImages[i])

ReturnsString ==
  outcome.kind = "return" /\ outcome.type = "str"
ReturnsError(msg) ==
  ReturnsString /\ outcome.value = <<"Error: ", msg>>

(***************************************************************************)
(* C1, as stated: every request with more than 5 image parts fails with    *)
(* the 'Maximum of 5 images' error at its 6th image part, and issues no    *)
(* HTTP request.  It is read in its favour: of calls made with an API key  *)
(* configured.                                                             *)
(***************************************************************************)
C1_SixthImageAlwaysCountError ==
  (AnthropicCalled /\ KeyConfigured /\ Len(RequestImages) > 5)
    => /\ ReturnsError(E_COUNT)
       /\ locals.image_count = 5
       /\ http = <<>>

(***************************************************************************)
(* C1, amended: with an API key configured, a request with more than 5     *)
(* image parts in its non-system messages fails and issues no HTTP         *)
(* request; it fails with the 'Maximum of 5 images' error, at the 6th      *)
(* image part, exactly when none of its first 5 image parts is a base64    *)
(* image over the per-image cap, and with the per-image error otherwise.   *)
(***************************************************************************)
C1_SixthImageRejected ==
  (AnthropicCalled /\ KeyConfigured /\ Len(RequestImages) > 5)
    => /\ http = <<>>
       /\ gen.state = "none"
       /\ ~locals.built
       /\ IF OversizedAmong(5)
          THEN ReturnsError(E_PER_IMAGE)
          ELSE ReturnsError(E_COUNT) /\ locals.image_count = 5

\* six images accepted one by one, of both sources, in two messages
C1_Witness ==
  /\ AnthropicCalled /\ KeyConfigured
  /\ Len(NonSystem(call.body.messages)) = 2
  /\ Len(RequestImages) = 6
  /\ \E i, j \in 1..5 : IsBase64(RequestImages[i]) /\ ~IsBase64(RequestImages[j])
  /\ ReturnsError(E_COUNT)
  /\ http = <<>>

(***************************************************************************)
(* C2, as stated: (a) a base64 image whose estimate is over 20 MiB makes   *)
(* the call fail with the per-image error; (b) a request whose images are  *)
(* each within the per-image cap and whose estimates sum to more than      *)
(* 100 MiB fails with the total-size error.  It is read in its favour: of  *)
(* calls made with an API key configured, and in (a) of an image the loop  *)
(* reaches before the image-count limit, that is among the first 5.        *)
(***************************************************************************)
WithinCapButOverTotal ==
  /\ ~OversizedAmong(Len(RequestImages))
  /\ SumEstimates4(RequestImages, Len(RequestImages)) > 4 * (100 * 1024 * 1024)

C2_PerImageAndTotalErrors ==
  (AnthropicCalled /\ KeyConfigured) =>
    /\ OversizedAmong(5) => ReturnsError(E_PER_IMAGE)
    /\ WithinCapButOverTotal => ReturnsError(E_TOTAL)

(***************************************************************************)
(* C2, amended: with an API key configured, (a) a base64 image whose       *)
(* estimate is over 20 MiB makes the call fail with the per-image error    *)
(* when it is among the first 5 image parts; (b) the running sum of the    *)
(* estimates never exceeds 100 MiB and no call fails with the total-size   *)
(* error: a request whose images are each within the per-image cap and     *)
(* sum to more than 100 MiB has at least 6 image parts and fails with the  *)
(* image-count error.                                                      *)
(***************************************************************************)
C2_PerImageErrorAndNoTotalError ==
  (AnthropicCalled /\ KeyConfigured) =>
    /\ OversizedAmong(5) => ReturnsError(E_PER_IMAGE)
    /\ locals.total_image_size <= 4 * (100 * 1024 * 1024)
    /\ locals.error # E_TOTAL
    /\ ~ReturnsError(E_TOTAL)
    /\ WithinCapButOverTotal
         => Len(RequestImages) >= 6 /\ ReturnsError(E_COUNT)

\* the largest images the per-image limit lets through, summing to over 100 MiB
C2_Witness ==
  /\ AnthropicCalled /\ KeyConfigured
  /\ WithinCapButOverTotal
  /\ \A i \in 1..Len(RequestImages) : IsBase64(RequestImages[i])
  /\ locals.image_count = 5
  /\ locals.total_image_size = 5 * 3 * LongestAllowed
  /\ ReturnsError(E_COUNT)

(***************************************************************************)
(* C3: with an API key configured, a request with at most 5 image parts,   *)
(* each base64 image within the per-image cap and the estimates summing    *)
(* to at most 100 MiB, raises no validation error; the translated list     *)
(* has one entry per non-system message, in the same order, with the same  *)
(* role and the translation of its content; URL images add 0 to the size   *)
(* sum.                                                                    *)
(***************************************************************************)
WithinLimits ==
  /\ Len(RequestImages) <= 5
  /\ ~OversizedAmong(Len(RequestImages))
  /\ SumEstimates4(RequestImages, Len(RequestImages)) <= 4 * (100 * 1024 * 1024)

\* what one content part is sent as; a part that is neither is left out
SentPart(part) ==
  IF part.type = "text" THEN [type |-> "text", text |-> part.text]
  ELSE IF part.image_url.data
  THEN [type |-> "image",
        source |-> [type |-> "base64", media_type |-> part.image_url.media_type,
                    data_len |-> part.image_url.len]]
  ELSE [type |-> "image", source |-> [type |-> "url", url |-> part.image_url]]

SentContent(m) ==
  IF m.content.kind = "list"
  THEN [i \in 1..Len(m.content.items) |-> SentPart(m.content.items[i])]
  ELSE <<[type |-> "text", text |-> m.content.text]>>

Base64Images == SelectSeq(RequestImages, IsBase64)

C3_TranslationPreservesOrderAndRole ==
  (AnthropicCalled /\ KeyConfigured /\ WithinLimits) =>
    LET kept == NonSystem(call.body.messages)
        sent == locals.payload.messages
    IN /\ locals.error = NoError
       /\ locals.built
       /\ \A e \in {E_COUNT, E_PER_IMAGE, E_TOTAL} : ~ReturnsError(e)
       /\ IF call.body.stream
          THEN outcome.kind = "return" /\ outcome.type = "generator"
          ELSE Len(http) = 1 /\ http[1].json.messages = sent
       /\ Len(sent) = Len(kept)
       /\ \A i \in 1..Len(kept) :
            /\ sent[i].role = kept[i].role
            /\ sent[i].content = SentContent(kept[i])
       /\ locals.image_count = Len(RequestImages)
       /\ locals.total_image_size =
            SumEstimates4(Base64Images, Len(Base64Images))

\* a system message between two messages of different roles, with images
\* of both sources
C3_Witness ==
  /\ AnthropicCalled /\ KeyConfigured /\ WithinLimits
  /\ Len(call.body.messages) = 3
  /\ IsSystem(call.body.messages[2])
  /\ call.body.messages[1].role = "user"
  /\ call.body.messages[3].role = "assistant"
  /\ \E i, j \in 1..Len(RequestImages) :
       IsBase64(RequestImages[i]) /\ ~IsBase64(RequestImages[j])
  /\ Len(locals.payload.messages) = 2
  /\ locals.total_image_size > 0

(***************************************************************************)
(* C4: extract_system_message returns the content of the last system       *)
(* message (None when there is none) and the non-system messages in their  *)
(* order; no system message is left in the list.                           *)
(***************************************************************************)
SystemIndices(messages) == { i \in 1..Len(messages) : IsSystem(messages[i]) }
Last(S) == CHOOSE i \in S : \A j \in S : j <= i
LastSystemContent(messages) ==
  IF SystemIndices(messages) = {} THEN None
  ELSE messages[Last(SystemIndices(messages))].content

C4_LastSystemWins ==
  (AnthropicCalled /\ locals.entered) =>
    /\ locals.system_message = LastSystemContent(call.body.messages)
    /\ locals.messages = NonSystem(call.body.messages)
    /\ \A i \in 1..Len(locals.messages) : ~IsSystem(locals.messages[i])

\* system "A", system "B", user "hi"
C4_Witness ==
  /\ AnthropicCalled /\ locals.entered
  /\ call.body.messages = <<Message("system", Str("A")),
                            Message("system", Str("B")),
                            Message("user", Str("hi"))>>
  /\ locals.system_message = Str("B")
  /\ locals.messages = <<Message("user", Str("hi"))>>

(***************************************************************************)
(* C10, as stated: the payload has a 'system' field exactly when the       *)
(* request holds a system message, and the field is the content of the     *)
(* last one, whatever that content is.                                     *)
(***************************************************************************)
HasSystemField == "system" \in DOMAIN locals.payload

C10_SystemFieldIffSystemMessage ==
  (AnthropicCalled /\ locals.built) =>
    /\ HasSystemField <=> SystemIndices(call.body.messages) # {}
    /\ HasSystemField =>
         locals.payload.system = LastSystemContent(call.body.messages)

(***************************************************************************)
(* C10, amended: the payload has a 'system' field exactly when the request *)
(* holds a system message and the content of the last one is not empty;    *)
(* the field is then that content.                                         *)
(***************************************************************************)
C10_SystemFieldIffNonEmpty ==
  (AnthropicCalled /\ locals.built) =>
    /\ HasSystemField <=>
         /\ SystemIndices(call.body.messages) # {}
         /\ LastSystemContent(call.body.messages) # Str("")
    /\ HasSystemField =>
         locals.payload.system = LastSystemContent(call.body.messages)

\* the last of two system messages is empty: no field, the first is not used
C10_Witness ==
  /\ AnthropicCalled /\ locals.built
  /\ Len(call.body.messages) >= 2
  /\ call.body.messages[1] = Message("system", Str("A"))
  /\ call.body.messages[2] = Message("system", Str(""))
  /\ ~HasSystemField

(***************************************************************************)
(* C7: a buffered pipe() call of either adapter never lets an exception    *)
(* reach the host: a missing API key, an image limit, a failed request or  *)
(* an error status ends the call with an error string as its value, and a  *)
(* call made with no API key configured issues no HTTP request.            *)
(***************************************************************************)
BufferedPipeCalled == call.op = "pipe" /\ ~call.body.stream

KeyMissing ==
  \/ call.adapter = "anthropic" /\ valves.ANTHROPIC_API_KEY = ""
  \/ call.adapter = "openai" /\ valves.OPENAI_API_KEY = ""

ReturnsErrorString ==
  ReturnsString /\ outcome.value[1] \in {"Error: ", "Unexpected error: "}

C7_BufferedCallNeverRaises ==
  BufferedPipeCalled =>
    /\ outcome.kind = "return"
    /\ KeyMissing => ReturnsErrorString /\ http = <<>>

\* the half of C7 that the Anthropic adapter keeps
C7_AnthropicBufferedCallNeverRaises ==
  (BufferedPipeCalled /\ call.adapter = "anthropic") =>
    /\ outcome.kind = "return"
    /\ (KeyMissing \/ locals.error # NoError)
         => ReturnsErrorString /\ http = <<>>
    /\ (Len(http) = 1 /\ outcome.value # <<"ok">> /\ outcome.value # <<"">>)
         => ReturnsErrorString

(***************************************************************************)
(* C8, as stated: the model listing of the OpenAI adapter never raises.    *)
(* Without an API key it returns one entry with id 'error' and makes no    *)
(* HTTP request; when the GET fails, returns a non-2xx status or a body    *)
(* that does not parse or lacks 'data' or a model's 'id', it returns one   *)
(* entry with id 'error'; otherwise it returns the catalog entries whose   *)
(* id starts with one of the comma-separated MODEL_FILTER prefixes, in     *)
(* catalog order, each named NAME_PREFIX followed by its name (its id when *)
(* it has none).                                                           *)
(***************************************************************************)
PipesCalled == call.adapter = "openai" /\ call.op = "pipes"

\* s[i..j] is one of the pieces that the commas of s delimit
IsPiece(s, i, j) ==
  /\ \A k \in i..j : s[k] # ","
  /\ i = 1 \/ s[i - 1] = ","
  /\ j = Len(s) \/ s[j + 1] = ","

FilterAdmits(id) ==
  LET f == valves.MODEL_FILTER
  IN \E i \in 1..(Len(f) + 1) : \E j \in (i - 1)..Len(f) :
       /\ IsPiece(f, i, j)
       /\ j - i + 1 <= Len(id)
       /\ \A k \in 1..(j - i + 1) : id[k] = f[i + k - 1]

BodyUnusable(resp) ==
  \/ ~resp.parses
  \/ "data" \notin DOMAIN resp.json.fields
  \/ \E k \in 1..Len(resp.json.fields["data"].items) :
       "id" \notin DOMAIN resp.json.fields["data"].items[k].fields

DisplayName(model) ==
  valves.NAME_PREFIX \o (IF "name" \in DOMAIN model.fields
                         THEN model.fields["name"] ELSE model.fields["id"])

OneErrorEntry ==
  Len(outcome.value) = 1 /\ outcome.value[1].id = <<"error">>

ListsFilteredCatalog ==
  LET kept == SelectSeq(call.reply.json.fields["data"].items,
                        LAMBDA m : FilterAdmits(m.fields["id"]))
  IN /\ Len(outcome.value) = Len(kept)
     /\ \A k \in 1..Len(kept) :
          /\ outcome.value[k].id = kept[k].fields["id"]
          /\ outcome.value[k].name = DisplayName(kept[k])

\* failed: whether the reply of the call counts as a failed one
ModelListing(failed) ==
  PipesCalled =>
    /\ outcome.kind = "return" /\ outcome.type = "list"
    /\ IF valves.OPENAI_API_KEY = ""
       THEN OneErrorEntry /\ http = <<>>
       ELSE /\ Len(http) = 1 /\ http[1].method = "GET"
            /\ IF failed THEN OneErrorEntry
               ELSE ListsFilteredCatalog

Non2xxOrUnusable(resp) ==
  resp.fail \/ resp.status < 200 \/ resp.status > 299 \/ BodyUnusable(resp)

C8_ErrorEntryOnNon2xx == ModelListing(Non2xxOrUnusable(call.reply))

(***************************************************************************)
(* C8, amended: as stated, with 'a 4xx or 5xx status' in the place of 'a   *)
(* non-2xx status': a reply with any other status is treated as a reply    *)
(* with status 200.                                                        *)
(***************************************************************************)
ErrorStatusOrUnusable(resp) ==
  resp.fail \/ (resp.status >= 400 /\ resp.status <= 599) \/ BodyUnusable(resp)

ReplyUnusable(resp) == ErrorStatusOrUnusable(resp)

C8_ModelListingFailsSoft == ModelListing(ErrorStatusOrUnusable(call.reply))

\* two prefixes keep the first and the third of three models and drop the
\* second
C8_Witness ==
  /\ PipesCalled
  /\ valves.OPENAI_API_KEY # ""
  /\ valves.MODEL_FILTER = <<"g", ",", "d">>
  /\ call.reply.status = 200
  /\ ~ReplyUnusable(call.reply)
  /\ Len(call.reply.json.fields["data"].items) = 3
  /\ call.reply.json.fields["data"].items[1].fields["id"] = <<"g", "x">>
  /\ call.reply.json.fields["data"].items[2].fields["id"] = <<"x">>
  /\ call.reply.json.fields["data"].items[3].fields["id"] = <<"d">>
  /\ outcome.value = <<[id |-> <<"g", "x">>, name |-> <<"O", "/", "N">>],
                       [id |-> <<"d">>, name |-> <<"O", "/", "d">>]>>

(***************************************************************************)
(* C9: in both adapters the model id sent to the vendor is the host model  *)
(* id without everything up to and including its first '.'; an id with no  *)
(* '.' is sent unchanged, and later dots stay.                             *)
(***************************************************************************)
DotIndices(m) == { i \in 1..Len(m) : m[i] = "." }
First(S) == CHOOSE i \in S : \A j \in S : i <= j
VendorLocalId(m) ==
  IF DotIndices(m) = {} THEN m
  ELSE [k \in 1..(Len(m) - First(DotIndices(m))) |-> m[First(DotIndices(m)) + k]]

C9_ModelIdStrippedAtFirstDot ==
  (call.op = "pipe" /\ locals.built) =>
    /\ locals.payload.model = VendorLocalId(call.body.model)
    /\ \A k \in 1..Len(http) : http[k].json.model = VendorLocalId(call.body.model)

\* "a..b" is sent as ".b" by the OpenAI adapter
C9_Witness ==
  /\ call.op = "pipe" /\ call.adapter = "openai" /\ locals.built
  /\ call.body.model = <<"a", ".", ".", "b">>
  /\ Len(http) = 1
  /\ http[1].json.model = <<".", "b">>

(***************************************************************************)
(* The streamed path, stated over the lines of the response.               *)
(***************************************************************************)
Missing == [kind |-> "missing"]
Field(v, k) ==
  IF v.kind = "dict" /\ k \in DOMAIN v.fields THEN v.fields[k] ELSE Missing

EventType(line) ==
  IF line.data /\ line.parses THEN Field(line.json, "type") ELSE Missing
IsEventOf(line, t) == EventType(line).kind = "str" /\ EventType(line).text = t

NestedText(line, outer) == Field(Field(line.json, outer), "text")

IsTextEntry(e) ==
  /\ Field(e, "type").kind = "str" /\ Field(e, "type").text = "text"
  /\ Field(e, "text").kind # "missing"

TextEntries(line) ==
  IF Field(line.json, "content").kind = "list"
  THEN SelectSeq(Field(line.json, "content").items, IsTextEntry)
  ELSE <<>>

\* the fragments one line stands for
FragmentsOf(line) ==
  IF IsEventOf(line, "content_block_start")
  THEN IF NestedText(line, "content_block").kind = "missing" THEN <<>>
       ELSE <<NestedText(line, "content_block")>>
  ELSE IF IsEventOf(line, "content_block_delta")
  THEN IF NestedText(line, "delta").kind = "missing" THEN <<>>
       ELSE <<NestedText(line, "delta")>>
  ELSE IF IsEventOf(line, "message")
  THEN [k \in 1..Len(TextEntries(line)) |-> Field(TextEntries(line)[k], "text")]
  ELSE <<>>

StopIndices(lines) ==
  { i \in 1..Len(lines) : IsEventOf(lines[i], "message_stop") }

\* the lines read: up to and including the first message_stop
LinesRead(lines) ==
  IF StopIndices(lines) = {} THEN Len(lines) ELSE First(StopIndices(lines))

RECURSIVE FragmentsUpTo(_, _)
FragmentsUpTo(lines, n) ==
  IF n = 0 THEN <<>> ELSE FragmentsUpTo(lines, n - 1) \o FragmentsOf(lines[n])

\* the response came with status 200 and the generator has ended
StreamEnded ==
  /\ gen.state \in {"done", "raised"}
  /\ gen.exc \notin {"RequestException", "Exception"}

(***************************************************************************)
(* C5: for every sequence of response lines the generator yields, in line  *)
(* order, the text of each content_block_start and content_block_delta     *)
(* event and each text entry of a 'message' event before the first         *)
(* message_stop; every other line yields nothing; at message_stop the      *)
(* sequence ends and no later line is read.                                *)
(***************************************************************************)
C5_YieldsTextsUpToMessageStop ==
  /\ gen.pos <= LinesRead(gen.lines)
  /\ StreamEnded =>
       /\ gen.state = "done"
       /\ gen.pos = LinesRead(gen.lines)
       /\ gen.yielded = FragmentsUpTo(gen.lines, LinesRead(gen.lines))

\* what the code keeps of C5: on a response none of whose events raises
\* TypeError and none of whose 'message' events holds an entry without
\* 'type' or 'text'
RaisesNothing(line) ==
  /\ HandleEvent(line.json).exc # "TypeError"
  /\ IsEventOf(line, "message") =>
       \A k \in 1..Len(line.json.fields["content"].items) :
         LET e == line.json.fields["content"].items[k]
         IN /\ Field(e, "type").kind # "missing"
            /\ IsTextEntry(e) \/ Field(e, "type").text # "text"

StreamOrderOnWellFormedEvents ==
  (\A i \in 1..Len(gen.lines) :
     (gen.lines[i].data /\ gen.lines[i].parses) => RaisesNothing(gen.lines[i]))
    => C5_YieldsTextsUpToMessageStop

(***************************************************************************)
(* C6: a 'data: ' line whose payload is no JSON, and a parsed event that   *)
(* lacks an expected field (no 'type', a content_block_start without       *)
(* content_block.text, a content_block_delta without delta.text), is       *)
(* skipped without raising to the consumer: the output is the output of    *)
(* the same stream with these lines removed.                               *)
(***************************************************************************)
Offending(line) ==
  /\ line.data
  /\ \/ ~line.parses
     \/ EventType(line).kind = "missing"
     \/ /\ IsEventOf(line, "content_block_start")
        /\ NestedText(line, "content_block").kind = "missing"
     \/ /\ IsEventOf(line, "content_block_delta")
        /\ NestedText(line, "delta").kind = "missing"

WithoutOffending(lines) == SelectSeq(lines, LAMBDA l : ~Offending(l))

C6_MalformedEventsAreSkipped ==
  StreamEnded =>
    /\ gen.state = "done"
    /\ gen.yielded = RunFrom(WithoutOffending(gen.lines), 1, <<>>).yielded

\* what the code keeps of C6: the lines it skips are those that are no
\* JSON and the events whose missing field raises KeyError
SkippedByKeyError(line) ==
  Offending(line) /\ (line.parses => HandleEvent(line.json).exc = "KeyError")

StreamSkipsKeyErrors ==
  (StreamEnded /\ \A i \in 1..Len(gen.lines) :
                    Offending(gen.lines[i]) => SkippedByKeyError(gen.lines[i]))
    => /\ gen.state = "done"
       /\ gen.yielded = RunFrom(WithoutOffending(gen.lines), 1, <<>>).yielded
====
